---------------------------- MODULE Spec2Model ----------------------------
(***************************************************************************)
(* Model of the "adjust sound volume" add-on: config.py (load_config,      *)
(* save_config), ui.py (adjust_volume, toggle_mute, adjust_speed,          *)
(* setup_shortcuts, VolumeDialog) and hook.py (did_begin_playing).         *)
(*                                                                         *)
(* Playback speeds are floats in the source; the model holds them in       *)
(* hundredths (1.0 is 100).  Raw configuration values, as the add-on       *)
(* manager returns them, are tagged records [t, n, s]: t is the Python     *)
(* type, n the number (hundredths for a float, 0/1 for a bool), s the      *)
(* string.                                                                 *)
(***************************************************************************)
EXTENDS Integers, Sequences, FiniteSets, TLC

VARIABLES
    store,      \* what mw.addonManager.getConfig returns: [t, m]
    live,       \* mw._volume_shortcuts: the actions registered on mw, in order
    hooks,      \* registrations of did_begin_playing in av_player_did_begin_playing
    dlg,        \* the widgets of the VolumeDialog
    player,     \* the mpv player's properties volume, af, speed
    last        \* the operation that ran last, with what it read and did

vars == <<store, live, hooks, dlg, player, last>>

-----------------------------------------------------------------------------
(* Raw values of the configuration mapping                                 *)

Absent == [t |-> "absent", n |-> 0, s |-> ""]

RNone == [t |-> "none", n |-> 0, s |-> ""]

RInt(n) == [t |-> "int", n |-> n, s |-> ""]

RFloat(h) == [t |-> "float", n |-> h, s |-> ""]

RBool(b) == [t |-> "bool", n |-> (IF b THEN 1 ELSE 0), s |-> ""]

RStr(s) == [t |-> "str", n |-> 0, s |-> s]

\* dict.get(key, default): the default only when the key is absent
Get(raw, default) == IF raw.t = "absent" THEN default ELSE raw

\* the strings int() accepts, among those the model stores
IntStrings == {"0", "50", "150"}

IntOfString(s) ==
    CASE s = "0" -> 0
      [] s = "50" -> 50
      [] s = "150" -> 150
      [] OTHER -> 0

\* the strings float() accepts, among those the model stores (in hundredths)
FloatStrings == IntStrings \cup {"1.5"}

FloatOfString(s) ==
    CASE s = "1.5" -> 150
      [] OTHER -> 100 * IntOfString(s)

\* truncation toward zero of h hundredths
Trunc(h) == IF h >= 0 THEN h \div 100 ELSE -((-h) \div 100)

\* int(x) raises for None and for a string that is no integer literal
IntRaises(raw) ==
    \/ raw.t = "none"
    \/ raw.t = "str" /\ raw.s \notin IntStrings

PyInt(raw) ==
    CASE raw.t = "int" -> raw.n
      [] raw.t = "bool" -> raw.n
      [] raw.t = "float" -> Trunc(raw.n)
      [] raw.t = "str" -> IntOfString(raw.s)
      [] OTHER -> 0

FloatRaises(raw) ==
    \/ raw.t = "none"
    \/ raw.t = "str" /\ raw.s \notin FloatStrings

PyFloat(raw) ==
    CASE raw.t = "int" -> 100 * raw.n
      [] raw.t = "bool" -> 100 * raw.n
      [] raw.t = "float" -> raw.n
      [] raw.t = "str" -> FloatOfString(raw.s)
      [] OTHER -> 0

\* bool(x): truthiness
PyBool(raw) ==
    CASE raw.t = "int" -> raw.n # 0
      [] raw.t = "bool" -> raw.n # 0
      [] raw.t = "float" -> raw.n # 0
      [] raw.t = "str" -> raw.s # ""
      [] OTHER -> FALSE

\* str(x) of a truthy value
PyStr(raw) ==
    CASE raw.t = "str" -> raw.s
      [] raw.t = "bool" -> "True"
      [] raw.t = "int" -> ToString(raw.n)
      [] OTHER -> ToString(raw.n)

-----------------------------------------------------------------------------
(* config.py                                                               *)

ShortcutNames ==
    <<"mute_shortcut", "settings_shortcut", "volume_up_shortcut",
      "volume_down_shortcut", "speed_up_shortcut", "speed_down_shortcut">>

LoudnormConfig == [enabled |-> FALSE, i |-> -24, dual_mono |-> FALSE]

VolumeConfig ==
    [volume |-> 100, is_muted |-> FALSE, allow_volume_boost |-> FALSE,
     mute_shortcut |-> "", settings_shortcut |-> "",
     volume_up_shortcut |-> "", volume_down_shortcut |-> "",
     loudnorm |-> LoudnormConfig, playback_speed |-> 100,
     speed_up_shortcut |-> "", speed_down_shortcut |-> ""]

\* load_config without its shortcut loop: a stored shortcut is never taken
LoadShortcutDropped(raw) == ""

\* lines 50-54: setattr(volume_config, name, str(value) if value else "")
LoadShortcut(raw) ==
    LET value == Get(raw, RStr(""))
    IN  IF PyBool(value) THEN PyStr(value) ELSE ""

LoadShortcuts(vc, m) ==
    [vc EXCEPT !.mute_shortcut = LoadShortcut(m.mute_shortcut),
               !.settings_shortcut = LoadShortcut(m.settings_shortcut),
               !.volume_up_shortcut = LoadShortcut(m.volume_up_shortcut),
               !.volume_down_shortcut = LoadShortcut(m.volume_down_shortcut),
               !.speed_up_shortcut = LoadShortcut(m.speed_up_shortcut),
               !.speed_down_shortcut = LoadShortcut(m.speed_down_shortcut)]

\* load_config treating a 'loudnorm' value that is no dict as an error of the
\* whole load
LoadLoudnormStrict(vc, ln) ==
    IF ln.t # "dict" THEN [cfg |-> VolumeConfig, warned |-> TRUE]
    ELSE [cfg |-> [vc EXCEPT !.loudnorm =
                       [enabled |-> PyBool(Get(ln.enabled, RBool(FALSE))),
                        i |-> PyInt(Get(ln.i, RInt(-24))),
                        dual_mono |-> PyBool(Get(ln.dual_mono, RBool(FALSE)))]],
          warned |-> FALSE]

\* lines 57-61: the loudnorm section; int() of 'i' may raise after 'enabled'
\* has been assigned
LoadLoudnorm(vc, ln) ==
    IF ln.t # "dict" THEN [cfg |-> vc, warned |-> FALSE]
    ELSE LET v1 == [vc EXCEPT !.loudnorm.enabled = PyBool(Get(ln.enabled, RBool(FALSE)))]
             rawi == Get(ln.i, RInt(-24))
         IN  IF IntRaises(rawi) THEN [cfg |-> v1, warned |-> TRUE]
             ELSE [cfg |-> [v1 EXCEPT !.loudnorm.i = PyInt(rawi),
                                      !.loudnorm.dual_mono =
                                          PyBool(Get(ln.dual_mono, RBool(FALSE)))],
                   warned |-> FALSE]

\* load_config without a warning when the read yields no mapping or raises
LoadConfigSilent(st) ==
    IF st.t # "dict" THEN [cfg |-> VolumeConfig, warned |-> FALSE]
    ELSE [cfg |-> LoadShortcuts(VolumeConfig, st.m), warned |-> FALSE]

\* load_config: the fields are assigned in the order of the source, and the
\* first conversion that raises ends the load with what was assigned so far.
\* A read that raises (line 35) ends in the except clause like a conversion
\* that raises, before anything was assigned.
LoadConfig(st) ==
    IF st.t # "dict" THEN [cfg |-> VolumeConfig, warned |-> TRUE]
    ELSE IF \A k \in DOMAIN st.m : st.m[k].t = "absent"
    THEN [cfg |-> VolumeConfig, warned |-> FALSE]
    ELSE LET m == st.m
             rawv == Get(m.volume, RInt(100))
             raws == Get(m.playback_speed, RFloat(100))
         IN  IF IntRaises(rawv) THEN [cfg |-> VolumeConfig, warned |-> TRUE]
             ELSE LET v3 == [VolumeConfig EXCEPT
                                 !.volume = PyInt(rawv),
                                 !.is_muted = PyBool(Get(m.is_muted, RBool(FALSE))),
                                 !.allow_volume_boost =
                                     PyBool(Get(m.allow_volume_boost, RBool(FALSE)))]
                  IN  IF FloatRaises(raws) THEN [cfg |-> v3, warned |-> TRUE]
                      ELSE LoadLoudnorm(
                               LoadShortcuts([v3 EXCEPT !.playback_speed = PyFloat(raws)], m),
                               Get(m.loudnorm, [t |-> "dict", enabled |-> Absent,
                                                i |-> Absent, dual_mono |-> Absent]))

\* the configuration a load returns
Cfg(st) == LoadConfig(st).cfg

\* save_config lines 75-91: the mapping handed to writeConfig
ConfigDict(vc) ==
    [volume |-> RInt(vc.volume),
     is_muted |-> RBool(vc.is_muted),
     allow_volume_boost |-> RBool(vc.allow_volume_boost),
     mute_shortcut |-> RStr(vc.mute_shortcut),
     settings_shortcut |-> RStr(vc.settings_shortcut),
     volume_up_shortcut |-> RStr(vc.volume_up_shortcut),
     volume_down_shortcut |-> RStr(vc.volume_down_shortcut),
     speed_up_shortcut |-> RStr(vc.speed_up_shortcut),
     speed_down_shortcut |-> RStr(vc.speed_down_shortcut),
     playback_speed |-> RFloat(vc.playback_speed),
     loudnorm |-> [t |-> "dict",
                   enabled |-> RBool(vc.loudnorm.enabled),
                   i |-> RInt(vc.loudnorm.i),
                   dual_mono |-> RBool(vc.loudnorm.dual_mono)]]

\* config.save_config with a write that stores the mapping also when it fails
SaveConfigWritesAnyway(st, vc, ok) == [t |-> "dict", m |-> ConfigDict(vc)]

\* config.save_config: writeConfig either stores the mapping or raises, and
\* then the store keeps what it held
SaveConfig(st, vc, ok) == IF ok THEN [t |-> "dict", m |-> ConfigDict(vc)] ELSE st

-----------------------------------------------------------------------------
(* ui.py: shortcuts, save_config, adjust_volume, toggle_mute, adjust_speed *)

Max(a, b) == IF a >= b THEN a ELSE b

Min(a, b) == IF a <= b THEN a ELSE b

Abs(a) == IF a >= 0 THEN a ELSE -a

\* QKeySequence(text).toString(): the canonical spelling of a combination
KeyString(text) ==
    CASE text = "ctrl+alt+m" -> "Ctrl+Alt+M"
      [] OTHER -> text

\* keyboardModifiers() & (Control | Alt | Shift | Meta) of a canonical string
HasModifier(key) == key \in {"Ctrl+Alt+M", "Ctrl+Alt+V", "Ctrl+Alt+Up", "Ctrl+Alt+Down",
                             "Ctrl+Alt+Right", "Ctrl+Alt+Left", "Shift+M"}

\* str.isspace()
IsSpace(text) == text \in {" ", "  "}

\* setup_shortcuts lines 722-729: the (shortcut, callback) pairs, in order
ShortcutPairs(vc) ==
    << [key |-> vc.volume_up_shortcut, fn |-> "volume_up"],
       [key |-> vc.volume_down_shortcut, fn |-> "volume_down"],
       [key |-> vc.mute_shortcut, fn |-> "mute"],
       [key |-> vc.settings_shortcut, fn |-> "settings"],
       [key |-> vc.speed_up_shortcut, fn |-> "speed_up"],
       [key |-> vc.speed_down_shortcut, fn |-> "speed_down"] >>

\* register_shortcut without the isspace() test
RegistersBlank(key) == key # ""

\* register_shortcut lines 709-719: no action for an empty or blank key
Registers(key) == ~(key = "" \/ IsSpace(key))

\* setup_shortcuts without lines 732-738: the actions registered before stay
\* on the main window
RevokedNothing(actions) == actions

\* setup_shortcuts lines 732-738: every registered action is cleared,
\* disabled and removed from the main window, and the list is emptied
Revoked(actions) == <<>>

\* setup_shortcuts lines 741-746: an action is added for every pair that
\* register_shortcut accepts, in the order of the pairs
Installed(actions, pairs) ==
    LET kept == SelectSeq(pairs, LAMBDA p : Registers(p.key))
    IN  actions \o [i \in 1..Len(kept) |->
                       [key |-> KeyString(kept[i].key), fn |-> kept[i].fn]]

\* setup_shortcuts on the registered actions: the configuration is loaded, the
\* actions are revoked, then the new ones are installed, in one call
Activate(actions, st) == Installed(Revoked(actions), ShortcutPairs(Cfg(st)))

\* setup_shortcuts: every registered action is cleared and removed, then the
\* list is rebuilt from the configuration just loaded
SetupShortcuts(st) == Activate(live, st)

\* ui.save_config with setup_shortcuts called before the write
SaveEffectsActivateFirst ==
    <<"setup_shortcuts", "writeConfig", "remove hook", "append hook">>

\* ui.save_config lines 44-50: the calls it makes, in order
SaveEffects == <<"writeConfig", "remove hook", "append hook", "setup_shortcuts">>

\* gui_hooks remove then append of hook.did_begin_playing
Rehook(h) == (IF h > 0 THEN h - 1 ELSE h) + 1

\* ui.save_config: write, re-register the hook, set the shortcuts up again
UiSaveConfig(vc, ok) ==
    /\ store' = SaveConfig(store, vc, ok)
    /\ hooks' = Rehook(hooks)
    /\ live' = SetupShortcuts(store')

\* adjust_volume line 87
MaxVolume(vc) == IF vc.allow_volume_boost THEN 200 ELSE 100

\* adjust_volume without the lower limit max(0, ...)
NewVolumeNoFloor(vc, delta) == Min(MaxVolume(vc), vc.volume + delta)

\* adjust_volume without the upper limit min(max_volume, ...)
NewVolumeNoCeiling(vc, delta) == Max(0, vc.volume + delta)

\* adjust_volume line 88
NewVolume(vc, delta) == Max(0, Min(MaxVolume(vc), vc.volume + delta))

\* adjust_volume lines 91-92: delta is limited after new_volume was computed
LimitedDelta(vc, delta) ==
    IF Abs(delta) > MaxVolume(vc)
    THEN (IF delta > 0 THEN MaxVolume(vc) ELSE -MaxVolume(vc))
    ELSE delta

\* adjust_volume without its first rule: a volume of 0 does not mute
NewMutedNoFloorRule(vc, delta) ==
    IF vc.volume = 0 /\ NewVolume(vc, delta) > 0 THEN FALSE
    ELSE IF LimitedDelta(vc, delta) > 0 /\ vc.is_muted THEN FALSE
    ELSE vc.is_muted

\* adjust_volume without its two unmuting rules
NewMutedNeverUnmutes(vc, delta) ==
    IF NewVolume(vc, delta) = 0 THEN TRUE ELSE vc.is_muted

\* adjust_volume with a third rule that forgets the sign of delta
NewMutedUnmutesOnAny(vc, delta) ==
    IF NewVolume(vc, delta) = 0 THEN TRUE
    ELSE IF vc.volume = 0 /\ NewVolume(vc, delta) > 0 THEN FALSE
    ELSE IF vc.is_muted THEN FALSE
    ELSE vc.is_muted

\* adjust_volume lines 95-102
NewMuted(vc, delta) ==
    IF NewVolume(vc, delta) = 0 THEN TRUE
    ELSE IF vc.volume = 0 /\ NewVolume(vc, delta) > 0 THEN FALSE
    ELSE IF LimitedDelta(vc, delta) > 0 /\ vc.is_muted THEN FALSE
    ELSE vc.is_muted

\* the configuration adjust_volume hands to save_config
AdjustedConfig(vc, delta) ==
    [vc EXCEPT !.is_muted = NewMuted(vc, delta), !.volume = NewVolume(vc, delta)]

\* how an operation ended: whether an exception left it (raised), whether it
\* called showWarning (warned), and for a function the number it returned
NoResult == [raised |-> FALSE, warned |-> FALSE, value |-> 0]

\* the record of an operation: its name and argument, the configuration it
\* loaded first, how its store write ended ("ok", "failed", or "none" when it
\* wrote nothing), the player properties it set, in order, and how it ended.
\* A behaviour that starts with the record Untraced keeps no record.
Untraced ==
    [op |-> "untraced", arg |-> 0, pre |-> VolumeConfig, wrote |-> "none", sets |-> <<>>,
     res |-> NoResult]

\* a ui.py operation: load_config warns when the read fails or yields no
\* mapping, config.save_config warns when the write fails
NoteOp(op, arg, pre, wrote) ==
    IF last = Untraced THEN Untraced
    ELSE [op |-> op, arg |-> arg, pre |-> pre, wrote |-> wrote, sets |-> <<>>,
          res |-> [NoResult EXCEPT !.warned = LoadConfig(store).warned \/ wrote = "failed"]]

NotePlay(arg, pre, names) ==
    IF last = Untraced THEN Untraced
    ELSE [op |-> "did_begin_playing", arg |-> arg, pre |-> pre, wrote |-> "none",
          sets |-> names, res |-> NoResult]

\* the record rec with the result res
Noted(rec, res) == IF last = Untraced THEN Untraced ELSE [rec EXCEPT !.res = res]

AdjustVolume(delta) ==
    \E ok \in BOOLEAN :
        LET volume_config == Cfg(store)
        IN  /\ UiSaveConfig(AdjustedConfig(volume_config, delta), ok)
            /\ last' = NoteOp("adjust_volume", delta, volume_config,
                              IF ok THEN "ok" ELSE "failed")
            /\ UNCHANGED <<dlg, player>>

\* toggle_mute without its test of the volume
CanToggleAlways(vc) == TRUE

\* toggle_mute line 694
CanToggle(vc) == vc.volume > 0

\* toggle_mute line 695
ToggledConfig(vc) == [vc EXCEPT !.is_muted = ~vc.is_muted]

ToggleMute ==
    LET volume_config == Cfg(store)
    IN  IF CanToggle(volume_config)
        THEN \E ok \in BOOLEAN :
                /\ UiSaveConfig(ToggledConfig(volume_config), ok)
                /\ last' = NoteOp("toggle_mute", 0, volume_config,
                                  IF ok THEN "ok" ELSE "failed")
                /\ UNCHANGED <<dlg, player>>
        ELSE /\ last' = NoteOp("toggle_mute", 0, volume_config, "none")
             /\ UNCHANGED <<store, live, hooks, dlg, player>>

\* _get_nearest_speed line 114, in hundredths
SPEED_STEPS == <<25, 50, 60, 70, 80, 90, 100, 110, 120, 130, 140, 150, 175, 200>>

\* _get_nearest_speed with comparisons that are not strict
GetNearestSpeedInclusive(current_speed, increase) ==
    IF increase
    THEN LET above == {i \in 1..Len(SPEED_STEPS) : SPEED_STEPS[i] >= current_speed}
         IN  IF above = {} THEN SPEED_STEPS[Len(SPEED_STEPS)]
             ELSE SPEED_STEPS[CHOOSE i \in above : \A j \in above : i <= j]
    ELSE LET below == {i \in 1..Len(SPEED_STEPS) : SPEED_STEPS[i] <= current_speed}
         IN  IF below = {} THEN SPEED_STEPS[1]
             ELSE SPEED_STEPS[CHOOSE i \in below : \A j \in below : i >= j]

\* _get_nearest_speed without lines 121 and 126: past the end of the table the
\* current speed is returned
GetNearestSpeedNoEdge(current_speed, increase) ==
    IF increase
    THEN LET above == {i \in 1..Len(SPEED_STEPS) : SPEED_STEPS[i] > current_speed}
         IN  IF above = {} THEN current_speed
             ELSE SPEED_STEPS[CHOOSE i \in above : \A j \in above : i <= j]
    ELSE LET below == {i \in 1..Len(SPEED_STEPS) : SPEED_STEPS[i] < current_speed}
         IN  IF below = {} THEN current_speed
             ELSE SPEED_STEPS[CHOOSE i \in below : \A j \in below : i >= j]

\* _get_nearest_speed lines 117-126
GetNearestSpeed(current_speed, increase) ==
    IF increase
    THEN LET above == {i \in 1..Len(SPEED_STEPS) : SPEED_STEPS[i] > current_speed}
         IN  IF above = {} THEN SPEED_STEPS[Len(SPEED_STEPS)]
             ELSE SPEED_STEPS[CHOOSE i \in above : \A j \in above : i <= j]
    ELSE LET below == {i \in 1..Len(SPEED_STEPS) : SPEED_STEPS[i] < current_speed}
         IN  IF below = {} THEN SPEED_STEPS[1]
             ELSE SPEED_STEPS[CHOOSE i \in below : \A j \in below : i >= j]

\* adjust_speed: delta is 0.1 (speed up) or -0.1 (speed down), in hundredths;
\* lines 141-146 give the new speed to each running mpv player (has_mpv: the
\* player is among av_player.players), and a set that raises is swallowed
\* The record counts the nudges of a run that persisted: run of them came
\* before this one.
AdjustSpeedRun(delta, has_mpv, run) ==
    \E ok \in BOOLEAN, set_ok \in (IF has_mpv THEN BOOLEAN ELSE {TRUE}) :
        LET volume_config == Cfg(store)
            new_speed == GetNearestSpeed(volume_config.playback_speed, delta > 0)
        IN  /\ UiSaveConfig([volume_config EXCEPT !.playback_speed = new_speed], ok)
            /\ player' = IF has_mpv /\ set_ok THEN [player EXCEPT !.speed = new_speed]
                          ELSE player
            /\ last' = IF last = Untraced THEN Untraced
                       ELSE [NoteOp("adjust_speed", delta, volume_config,
                                    IF ok THEN "ok" ELSE "failed")
                                EXCEPT !.res.value = run + (IF ok THEN 1 ELSE 0)]
            /\ UNCHANGED dlg

\* adjust_speed, as the first nudge of a run
AdjustSpeed(delta, has_mpv) == AdjustSpeedRun(delta, has_mpv, 0)

-----------------------------------------------------------------------------
(* hook.py                                                                 *)

\* did_begin_playing with a volume that ignores is_muted
ActualVolumeIgnoresMute(vc) == vc.volume

\* did_begin_playing line 36
ActualVolume(vc) == IF vc.is_muted THEN 0 ELSE vc.volume

\* did_begin_playing line 41
Silent(vc) == vc.is_muted \/ ActualVolume(vc) = 0

\* str(bool)
PyStrBool(b) == IF b THEN "True" ELSE "False"

\* str(bool) used without .lower()
LowerForgotten(text) == text

\* str.lower() of the strings str(bool) returns
Lower(text) ==
    CASE text = "True" -> "true"
      [] text = "False" -> "false"
      [] OTHER -> text

\* did_begin_playing lines 46-51: the value given to the 'af' property
AudioFilter(vc) ==
    IF vc.loudnorm.enabled
    THEN "loudnorm=I=" \o ToString(vc.loudnorm.i) \o ":dual_mono="
             \o Lower(PyStrBool(vc.loudnorm.dual_mono))
    ELSE ""

SetCall(name, n, text) == [name |-> name, n |-> n, s |-> text]

\* the set_property calls of did_begin_playing, in the order of the source
PropertyCalls(vc) ==
    IF Silent(vc)
    THEN << SetCall("volume", ActualVolume(vc), ""), SetCall("af", 0, "") >>
    ELSE << SetCall("volume", ActualVolume(vc), ""),
            SetCall("af", 0, AudioFilter(vc)),
            SetCall("speed", vc.playback_speed, "") >>

\* player.set_property(name, value)
SetProperty(p, call) ==
    CASE call.name = "volume" -> [p EXCEPT !.volume = call.n]
      [] call.name = "af" -> [p EXCEPT !.af = call.s]
      [] call.name = "speed" -> [p EXCEPT !.speed = call.n]
      [] OTHER -> p

RECURSIVE ApplyCalls(_, _)
ApplyCalls(p, calls) ==
    IF calls = <<>> THEN p
    ELSE ApplyCalls(SetProperty(p, Head(calls)), Tail(calls))

Names(calls) == [i \in 1..Len(calls) |-> calls[i].name]

\* did_begin_playing without its try statement: a set_property that raises
\* ends the call with that exception
PropagatesUncaught(failed) == failed

\* did_begin_playing lines 31, 56-57: the whole body runs inside try, and
\* except Exception prints what was raised; nothing leaves the function
Propagates(failed) == FALSE

\* did_begin_playing: is_mpv is isinstance(player, MpvManager); the set_property
\* call number fail_at raises (0: none does), which ends the function in its
\* except clause
DidBeginPlaying(is_mpv, fail_at) ==
    LET volume_config == Cfg(store)
        calls == PropertyCalls(volume_config)
        failed == is_mpv /\ fail_at \in 1..Len(calls)
        done == IF fail_at = 0 \/ fail_at > Len(calls) THEN calls
                ELSE SubSeq(calls, 1, fail_at - 1)
    IN  /\ player' = IF is_mpv THEN ApplyCalls(player, done) ELSE player
        /\ last' = Noted(NotePlay(fail_at, volume_config,
                                  IF is_mpv THEN Names(done) ELSE <<>>),
                         [NoResult EXCEPT !.raised = Propagates(failed),
                                          !.warned = LoadConfig(store).warned])
        /\ UNCHANGED <<store, live, hooks, dlg>>

-----------------------------------------------------------------------------
(* ui.py: VolumeDialog                                                     *)

Clamp(v, lo, hi) == Max(lo, Min(hi, v))

\* shortcut_items lines 255-262: the editors, in the order they are created
EditorNames ==
    <<"volume_up_shortcut_edit", "volume_down_shortcut_edit", "mute_shortcut_edit",
      "settings_shortcut_edit", "speed_up_shortcut_edit", "speed_down_shortcut_edit">>

\* VolumeDialog.__init__: the widgets of a dialog just constructed.  The volume
\* slider and its spin box are connected both ways over the same range and
\* always hold the same value: volume_slider stands for both, and i_spin_box
\* for the loudness slider and spin box.  recording names the shortcut editor
\* that has taken a key press and not yet announced it by keySequenceChanged.
NewDialog ==
    [open |-> FALSE,
     recording |-> "",
     current_session_boost_enabled |-> FALSE,
     volume_slider |-> 0, volume_max |-> 200, volume_enabled |-> TRUE,
     volume_boost_check_box |-> FALSE,
     mute_check_box |-> FALSE, mute_enabled |-> TRUE,
     loudnorm_group_box |-> TRUE, i_spin_box |-> -14, dual_mono_check_box |-> FALSE,
     speed_slider |-> 25, speed_spin_box |-> 25,
     shortcut_editors |-> [e \in {EditorNames[k] : k \in 1..Len(EditorNames)} |-> ""]]

\* on_volume_boost_changed without lines 614-622: the range and the value of
\* the slider stay as they were
OnVolumeBoostChangedKeepsRange(d, allow_boost) ==
    [d EXCEPT !.volume_boost_check_box = allow_boost,
              !.current_session_boost_enabled = allow_boost]

\* on_volume_boost_changed lines 599-622; QSlider.setMaximum keeps the value
\* within the new range
OnVolumeBoostChanged(d, allow_boost) ==
    LET current_volume == d.volume_slider
        max_volume == IF allow_boost THEN 200 ELSE 100
    IN  [d EXCEPT !.volume_boost_check_box = allow_boost,
                  !.current_session_boost_enabled = allow_boost,
                  !.volume_max = max_volume,
                  !.volume_slider = IF ~allow_boost /\ current_volume > 100 THEN 100
                                    ELSE Min(current_volume, max_volume)]

\* QCheckBox.setChecked on the boost check box: stateChanged fires on a change
SetBoostChecked(d, checked) ==
    IF d.volume_boost_check_box = checked THEN d ELSE OnVolumeBoostChanged(d, checked)

\* update_volume_controls lines 556-568 (the widgets; the stateChanged that its
\* setChecked(True) may fire is followed by the caller)
UpdateVolumeControls(d, is_muted) ==
    LET volume == d.volume_slider
    IN  [d EXCEPT !.volume_enabled = (~is_muted) \/ volume = 0,
                  !.mute_enabled = (volume # 0),
                  !.mute_check_box = IF volume = 0 THEN TRUE ELSE @]

\* on_mute_changed_silent lines 411-413: the store after its save_config
MuteChangedSilent(st, state, ok) ==
    SaveConfig(st, [Cfg(st) EXCEPT !.is_muted = state], ok)

\* _round_to_nearest_step with step 0.05, on hundredths: value / 0.05 is never
\* half-way between two integers for a value in hundredths
RoundToNearestStep(value) == 5 * ((value + 2) \div 5)

\* The floats of _round_to_nearest_step.  The double nearest to t thousandths
\* is written 10 * t, and the double next above it 10 * t + 1.
FloatOf(t) == 10 * t

\* the half-way values t (in thousandths, up to 3.0) for which the float
\* quotient (t / 1000) / 0.05 falls just below k + 0.5; for the other half-way
\* values it is k + 0.5 exactly
QuotientBelowHalf ==
    {75, 175, 475, 575, 725, 825, 1025, 1075, 1275, 1325, 1525, 1575, 1775,
     2025, 2175, 2275, 2425, 2525, 2675, 2775, 2925}

\* the k (up to 60) for which the float product k * 0.05 is the double above
\* the one nearest to k / 20; for the other k it is that double
ProductAbove ==
    {3, 6, 7, 12, 14, 17, 19, 23, 24, 28, 29, 33, 34, 38, 39, 41, 46, 48,
     51, 53, 56, 58}

\* round(value / step) for the double nearest to t thousandths: Python rounds
\* the float quotient, and an exact half to the even integer
RoundQuotient(t) ==
    LET k == t \div 50
        r == t % 50
    IN  IF r < 25 THEN k
        ELSE IF r > 25 THEN k + 1
        ELSE IF t \in QuotientBelowHalf THEN k
        ELSE IF k % 2 = 0 THEN k ELSE k + 1

\* _round_to_nearest_step line 170 on floats: round(value / 0.05) * 0.05; the
\* quotient of a product k * 0.05 rounds to k again
RoundToNearestStepFloat(f) ==
    LET k == IF f % 10 = 0 THEN RoundQuotient(f \div 10) ELSE (f \div 10) \div 50
    IN  FloatOf(50 * k) + (IF k \in ProductAbove THEN 1 ELSE 0)

\* _round_to_nearest_step(value) called on the double nearest to t thousandths
Snap(t) ==
    /\ last' = Noted(NoteOp("_round_to_nearest_step", FloatOf(t), Cfg(store), "none"),
                     [NoResult EXCEPT !.value = RoundToNearestStepFloat(FloatOf(t))])
    /\ UNCHANGED <<store, live, hooks, dlg, player>>

\* _round_to_nearest_step called on the float that the last call returned
SnapAgain ==
    /\ last.op \in {"_round_to_nearest_step", "_round_to_nearest_step again"}
    /\ last' = Noted(NoteOp("_round_to_nearest_step again", last.res.value,
                            Cfg(store), "none"),
                     [NoResult EXCEPT !.value = RoundToNearestStepFloat(last.res.value)])
    /\ UNCHANGED <<store, live, hooks, dlg, player>>

\* int(speed * 100) of the float nearest to h hundredths: the product falls
\* below h for these h in 0..300
IntOfSpeedTimes100(h) ==
    IF h \in {29, 57, 58, 113, 114, 115, 116, 201, 203, 205, 207,
              226, 228, 230, 232, 251, 253, 255}
    THEN h - 1 ELSE h

RECURSIVE SpeedSpinSetValue(_, _), SpeedSliderSetValue(_, _)
RECURSIVE OnSpeedSliderChanged(_, _), OnSpeedSpinChanged(_, _)

\* QDoubleSpinBox.setValue within setRange(0.25, 2.0): valueChanged on a change
SpeedSpinSetValue(d, value) ==
    LET v == Clamp(value, 25, 200)
    IN  IF v = d.speed_spin_box THEN d
        ELSE OnSpeedSpinChanged([d EXCEPT !.speed_spin_box = v], v)

\* QSlider.setValue within 25..200: valueChanged on a change
SpeedSliderSetValue(d, value) ==
    LET v == Clamp(value, 25, 200)
    IN  IF v = d.speed_slider THEN d
        ELSE OnSpeedSliderChanged([d EXCEPT !.speed_slider = v], v)

\* _on_speed_slider_changed lines 668-671
OnSpeedSliderChanged(d, value) ==
    LET rounded_speed == RoundToNearestStep(value)
    IN  IF d.speed_spin_box # rounded_speed THEN SpeedSpinSetValue(d, rounded_speed)
        ELSE d

\* _on_speed_spin_changed lines 675-681
OnSpeedSpinChanged(d, value) ==
    LET rounded_speed == RoundToNearestStep(value)
        d1 == IF value # rounded_speed THEN SpeedSpinSetValue(d, rounded_speed) ELSE d
    IN  IF d1.speed_slider # rounded_speed
        THEN SpeedSliderSetValue(d1, rounded_speed)
        ELSE d1

\* validate_shortcut without its check for duplicates (lines 651-664)
ValidateShortcutNoDuplicates(eds, name) ==
    LET key == eds[name]
    IN  IF key = "" THEN eds
        ELSE IF ~HasModifier(key) THEN [eds EXCEPT ![name] = ""]
        ELSE eds

\* validate_shortcut lines 630-664: what the editor holds after the check
ValidateShortcut(eds, name) ==
    LET key == eds[name]
        others == {eds[o] : o \in (DOMAIN eds) \ {name}} \ {""}
    IN  IF key = "" THEN eds
        ELSE IF ~HasModifier(key) THEN [eds EXCEPT ![name] = ""]
        ELSE IF key \in others THEN [eds EXCEPT ![name] = ""]
        ELSE eds

\* QKeySequenceEdit.setKeySequence: keySequenceChanged fires on a change
SetKeySequence(eds, name, text) ==
    IF KeyString(text) = eds[name] THEN eds
    ELSE ValidateShortcut([eds EXCEPT ![name] = KeyString(text)], name)

\* show lines 444-478: an editor is set from the configuration or cleared
ShowShortcut(eds, name, text) ==
    IF text # "" /\ ~IsSpace(text) THEN SetKeySequence(eds, name, text)
    ELSE SetKeySequence(eds, name, "")

\* show lines 417-432: boost check box, range and value of the volume slider
ShowVolume(d, vc) ==
    LET d1 == SetBoostChecked(
                  [d EXCEPT !.current_session_boost_enabled = vc.allow_volume_boost],
                  vc.allow_volume_boost)
        max_volume == IF vc.allow_volume_boost THEN 200 ELSE 100
    IN  [d1 EXCEPT !.volume_max = max_volume,
                   !.volume_slider = Clamp(vc.volume, 0, max_volume)]

\* show lines 435-436: the mute check box and the enabled states
ShowMute(d, vc) ==
    UpdateVolumeControls(
        UpdateVolumeControls([d EXCEPT !.mute_check_box = vc.is_muted], vc.is_muted),
        vc.is_muted)

\* show lines 438-478: loudnorm, shortcut editors and speed controls
ShowRest(d, vc) ==
    LET eds1 == ShowShortcut(d.shortcut_editors, "volume_up_shortcut_edit",
                             vc.volume_up_shortcut)
        eds2 == ShowShortcut(eds1, "volume_down_shortcut_edit", vc.volume_down_shortcut)
        eds3 == ShowShortcut(eds2, "mute_shortcut_edit", vc.mute_shortcut)
        eds4 == ShowShortcut(eds3, "settings_shortcut_edit", vc.settings_shortcut)
        eds5 == ShowShortcut(eds4, "speed_up_shortcut_edit", vc.speed_up_shortcut)
        eds6 == ShowShortcut(eds5, "speed_down_shortcut_edit", vc.speed_down_shortcut)
        d1 == [d EXCEPT !.loudnorm_group_box = vc.loudnorm.enabled,
                        !.i_spin_box = Clamp(vc.loudnorm.i, -50, -14),
                        !.dual_mono_check_box = vc.loudnorm.dual_mono,
                        !.shortcut_editors = eds6]
        speed == vc.playback_speed
    IN  SpeedSpinSetValue(SpeedSliderSetValue(d1, IntOfSpeedTimes100(speed)), speed)

\* the effect of one or more ui.save_config calls that leave the store as st
Saved(st) ==
    /\ store' = st
    /\ hooks' = Rehook(hooks)
    /\ live' = SetupShortcuts(st)

\* VolumeDialog(mw).show(): a new dialog is filled from the configuration.  The
\* mute check box of a new dialog is unchecked; checking it (the stored
\* is_muted, or a slider at 0) runs on_mute_changed_silent, which saves.
Show ==
    /\ ~dlg.open
    /\ LET volume_config == Cfg(store)
           d1 == ShowVolume(NewDialog, volume_config)
           d2 == ShowMute(d1, volume_config)
       IN  /\ dlg' = [ShowRest(d2, volume_config) EXCEPT !.open = TRUE]
           /\ IF d2.mute_check_box
              THEN \E ok \in BOOLEAN :
                      /\ Saved(MuteChangedSilent(store, TRUE, ok))
                      /\ last' = NoteOp("show", 0, volume_config,
                                        IF ok THEN "ok" ELSE "failed")
              ELSE /\ last' = NoteOp("show", 0, volume_config, "none")
                   /\ UNCHANGED <<store, live, hooks>>
    /\ UNCHANGED player

\* the user moves the volume slider (or edits its spin box) to value
SetVolume(value) ==
    /\ dlg.open /\ dlg.volume_enabled
    /\ value \in 0..dlg.volume_max
    /\ value # dlg.volume_slider
    /\ dlg' = [dlg EXCEPT !.volume_slider = value]
    /\ last' = NoteOp("set_volume", value, Cfg(store), "none")
    /\ UNCHANGED <<store, live, hooks, player>>

\* the user enters the combination text in the editor name: keySequenceChanged
\* runs validate_shortcut with that editor as the sender
EditShortcut(name, text) ==
    /\ dlg.open
    /\ KeyString(text) # dlg.shortcut_editors[name]
    /\ dlg' = [dlg EXCEPT !.shortcut_editors = SetKeySequence(@, name, text)]
    /\ last' = IF last = Untraced THEN Untraced
               ELSE [NoteOp("validate_shortcut", 0, Cfg(store), "none")
                        EXCEPT !.sets = <<name, KeyString(text)>>]
    /\ UNCHANGED <<store, live, hooks, player>>

\* the user presses the combination text in the editor name: the editor holds
\* it at once, keySequenceChanged fires only when the recording finishes
PressKeys(name, text) ==
    /\ dlg.open /\ dlg.recording = ""
    /\ dlg' = [dlg EXCEPT !.shortcut_editors[name] = KeyString(text),
                          !.recording = name]
    /\ last' = NoteOp("keyPressEvent", 0, Cfg(store), "none")
    /\ UNCHANGED <<store, live, hooks, player>>

\* the recording finishes: keySequenceChanged runs validate_shortcut with the
\* recording editor as the sender
FinishEditing ==
    /\ dlg.open /\ dlg.recording # ""
    /\ dlg' = [dlg EXCEPT !.shortcut_editors = ValidateShortcut(@, dlg.recording),
                          !.recording = ""]
    /\ last' = IF last = Untraced THEN Untraced
               ELSE [NoteOp("validate_shortcut", 0, Cfg(store), "none")
                        EXCEPT !.sets = <<dlg.recording,
                                          dlg.shortcut_editors[dlg.recording]>>]
    /\ UNCHANGED <<store, live, hooks, player>>

\* the user moves the speed slider to value: valueChanged runs
\* _on_speed_slider_changed and whatever the widgets it sets call in turn
MoveSpeedSlider(value) ==
    /\ dlg.open
    /\ value \in 25..200
    /\ value # dlg.speed_slider
    /\ dlg' = SpeedSliderSetValue(dlg, value)
    /\ last' = NoteOp("_on_speed_slider_changed", value, Cfg(store), "none")
    /\ UNCHANGED <<store, live, hooks, player>>

\* the user edits the speed spin box to value: valueChanged runs
\* _on_speed_spin_changed, which also hands the rounded speed to the profile
EditSpeedSpin(value) ==
    /\ dlg.open
    /\ value \in 25..200
    /\ value # dlg.speed_spin_box
    /\ dlg' = SpeedSpinSetValue(dlg, value)
    /\ last' = Noted(NoteOp("_on_speed_spin_changed", value, Cfg(store), "none"),
                     [NoResult EXCEPT !.value = RoundToNearestStep(value)])
    /\ UNCHANGED <<store, live, hooks, player>>

\* _reset_shortcuts lines 393-400: the defaults, in the order of the dict
DefaultShortcuts ==
    << <<"volume_up_shortcut_edit", "Ctrl+Alt+Up">>,
       <<"volume_down_shortcut_edit", "Ctrl+Alt+Down">>,
       <<"mute_shortcut_edit", "Ctrl+Alt+M">>,
       <<"settings_shortcut_edit", "Ctrl+Alt+V">>,
       <<"speed_up_shortcut_edit", "Ctrl+Alt+Right">>,
       <<"speed_down_shortcut_edit", "Ctrl+Alt+Left">> >>

RECURSIVE ResetEditors(_, _)

\* _reset_shortcuts lines 402-405: the editors are set one after the other,
\* from the k-th default on, each through setKeySequence and its validation
ResetEditors(eds, k) ==
    IF k > Len(DefaultShortcuts) THEN eds
    ELSE ResetEditors(SetKeySequence(eds, DefaultShortcuts[k][1], DefaultShortcuts[k][2]),
                      k + 1)

\* the user clicks 'Reset Shortcuts to Default' and answers the question
ResetShortcuts ==
    /\ dlg.open
    /\ \E yes \in BOOLEAN :
           /\ dlg' = IF yes THEN [dlg EXCEPT !.shortcut_editors = ResetEditors(@, 1)]
                      ELSE dlg
           /\ last' = NoteOp("_reset_shortcuts", IF yes THEN 1 ELSE 0, Cfg(store), "none")
    /\ UNCHANGED <<store, live, hooks, player>>

\* the user clicks the boost check box
ClickBoost ==
    /\ dlg.open
    /\ dlg' = OnVolumeBoostChanged(dlg, ~dlg.volume_boost_check_box)
    /\ last' = NoteOp("on_volume_boost_changed", dlg.volume_slider, Cfg(store), "none")
    /\ UNCHANGED <<store, live, hooks, player>>

\* the user clicks the mute check box: on_mute_changed_silent saves the new
\* state, then update_volume_controls checks the box again when the slider is
\* at 0, which saves once more
ClickMute ==
    /\ dlg.open /\ dlg.mute_enabled
    /\ \E ok1 \in BOOLEAN, ok2 \in BOOLEAN :
        LET state == ~dlg.mute_check_box
            st1 == MuteChangedSilent(store, state, ok1)
            d1 == UpdateVolumeControls([dlg EXCEPT !.mute_check_box = state], state)
            again == d1.mute_check_box # state
            d2 == IF again THEN UpdateVolumeControls(d1, TRUE) ELSE d1
        IN  /\ (~again => ok2)
            /\ dlg' = d2
            /\ Saved(IF again THEN MuteChangedSilent(st1, TRUE, ok2) ELSE st1)
            /\ last' = NoteOp("on_mute_changed_silent", 0, Cfg(store),
                              IF (IF again THEN ok2 ELSE ok1) THEN "ok" ELSE "failed")
    /\ UNCHANGED player

\* accept without lines 485-509
ShortcutsValidAlways(eds) == TRUE

\* accept lines 485-509: every editor that holds a combination has a modifier,
\* and no combination is held twice
ShortcutsValid(eds) ==
    /\ \A e \in DOMAIN eds : eds[e] # "" => HasModifier(eds[e])
    /\ \A e1 \in DOMAIN eds, e2 \in DOMAIN eds :
           (e1 # e2 /\ eds[e1] # "") => eds[e1] # eds[e2]

\* accept lines 512-533: the configuration loaded, with the widgets' values
AcceptedConfig(vc, d) ==
    [vc EXCEPT !.volume = d.volume_slider,
               !.is_muted = d.mute_check_box,
               !.allow_volume_boost = d.volume_boost_check_box,
               !.playback_speed = d.speed_slider,
               !.volume_up_shortcut = d.shortcut_editors["volume_up_shortcut_edit"],
               !.volume_down_shortcut = d.shortcut_editors["volume_down_shortcut_edit"],
               !.mute_shortcut = d.shortcut_editors["mute_shortcut_edit"],
               !.settings_shortcut = d.shortcut_editors["settings_shortcut_edit"],
               !.speed_up_shortcut = d.shortcut_editors["speed_up_shortcut_edit"],
               !.speed_down_shortcut = d.shortcut_editors["speed_down_shortcut_edit"],
               !.loudnorm = [enabled |-> d.loudnorm_group_box,
                             i |-> d.i_spin_box,
                             dual_mono |-> d.dual_mono_check_box]]

\* accept lines 536-543: the calls it makes once the shortcuts are valid
AcceptEffects == SaveEffects \o <<"setup_shortcuts", "processEvents", "QDialog.accept">>

\* accept: an invalid shortcut set leaves everything as it is; otherwise the
\* edited configuration is saved, the shortcuts are set up (by save_config and
\* once more by accept itself) and the dialog closes
Accept ==
    /\ dlg.open
    /\ IF ShortcutsValid(dlg.shortcut_editors)
       THEN \E ok \in BOOLEAN :
               LET volume_config == Cfg(store)
               IN  /\ store' = SaveConfig(store, AcceptedConfig(volume_config, dlg), ok)
                   /\ hooks' = Rehook(hooks)
                   /\ live' = Activate(SetupShortcuts(store'), store')
                   /\ dlg' = NewDialog
                   /\ last' = IF last = Untraced THEN Untraced
                              ELSE [NoteOp("accept", 0, volume_config,
                                           IF ok THEN "ok" ELSE "failed")
                                       EXCEPT !.sets = AcceptEffects]
       ELSE /\ last' = NoteOp("accept", 0, Cfg(store), "none")
            /\ UNCHANGED <<store, live, hooks, dlg>>
    /\ UNCHANGED player

\* reject (Cancel): the dialog closes
Reject ==
    /\ dlg.open
    /\ dlg' = NewDialog
    /\ last' = NoteOp("reject", 0, Cfg(store), "none")
    /\ UNCHANGED <<store, live, hooks, player>>

-----------------------------------------------------------------------------
(* Specifications                                                          *)

\* the largest nudge and the largest stored volume the model tries
MaxDelta == 250

MaxStored == 300

\* how many entries of the step table away from 1.0 the speed nudges of Spec go
MaxSpeedSteps == 1

\* the largest stored speed the speed nudges are tried on, in hundredths
MaxSpeed == 225

\* the largest value _round_to_nearest_step is tried on, in thousandths
MaxSnap == 1300

\* the positions the user gives the volume slider
SliderValues == {0, 50, 100, 150, 200}

\* mpv's own defaults
NewPlayer == [volume |-> 100, af |-> "", speed |-> 100]

NoOp == [Untraced EXCEPT !.op = "none"]

StoreOf(vc) == [t |-> "dict", m |-> ConfigDict(vc)]

\* a store whose read yields no mapping: getConfig returns None ("none") or a
\* string ("str"), or raises ("raises")
NoMapping(t) == [t |-> t, m |-> ConfigDict(VolumeConfig)]

InitRest ==
    /\ live = <<>>
    /\ hooks = 0
    /\ dlg = NewDialog
    /\ player = NewPlayer

\* the add-on starts on the default configuration; no mpv player is running
Init ==
    /\ store = StoreOf(VolumeConfig)
    /\ InitRest
    /\ last = Untraced

VolumeUp == AdjustVolume(10)

VolumeDown == AdjustVolume(-10)

\* the entries of the step table within MaxSpeedSteps entries of 1.0
NearSpeeds ==
    {SPEED_STEPS[i] : i \in {j \in 1..Len(SPEED_STEPS) :
                                 j - 7 <= MaxSpeedSteps /\ 7 - j <= MaxSpeedSteps}}

SpeedUp ==
    /\ GetNearestSpeed(Cfg(store).playback_speed, TRUE) \in NearSpeeds
    /\ AdjustSpeed(10, FALSE)

SpeedDown ==
    /\ GetNearestSpeed(Cfg(store).playback_speed, FALSE) \in NearSpeeds
    /\ AdjustSpeed(-10, FALSE)

Next ==
    \/ VolumeUp
    \/ VolumeDown
    \/ ToggleMute
    \/ SpeedUp
    \/ SpeedDown
    \/ Show
    \/ \E value \in SliderValues : SetVolume(value)
    \/ ClickBoost
    \/ ClickMute
    \/ Accept
    \/ Reject

Spec == Init /\ [][Next]_vars

\* adjust_volume and toggle_mute as functions of the stored configuration and
\* of delta: any stored volume, in or out of range, as an int, a float, a bool
\* or a numeric string; any mute and boost state; a mute shortcut or none
StoredVolumes ==
    {RInt(v) : v \in {-20, 0, 5, 50, 100, 150, 200, MaxStored}}
        \cup {RFloat(5050), RStr("150"), RBool(TRUE)}

Deltas == {-MaxDelta, -110, -10, 0, 10, 110, MaxDelta}

InitAdjust ==
    /\ \E v \in StoredVolumes, muted \in BOOLEAN, boost \in BOOLEAN,
          key \in {"", "Ctrl+Alt+M"} :
           store = [t |-> "dict",
                    m |-> [ConfigDict(VolumeConfig) EXCEPT
                               !.volume = v,
                               !.is_muted = RBool(muted),
                               !.allow_volume_boost = RBool(boost),
                               !.mute_shortcut = RStr(key)]]
    /\ InitRest
    /\ last = NoOp

NextAdjust ==
    \/ \E delta \in Deltas : AdjustVolume(delta)
    \/ ToggleMute

SpecAdjust == InitAdjust /\ [][NextAdjust]_vars

\* did_begin_playing over stored configurations that differ in volume, mute,
\* loudnorm and speed, and over a store whose read raises, with nudges and
\* mute toggles between the plays
InitHook ==
    /\ \/ \E v \in {0, 20}, muted \in BOOLEAN, enabled \in BOOLEAN,
             i \in {-24, -14}, dual_mono \in BOOLEAN, speed \in {150} :
              store = StoreOf([VolumeConfig EXCEPT
                                   !.volume = v,
                                   !.is_muted = muted,
                                   !.allow_volume_boost = (v > 100),
                                   !.playback_speed = speed,
                                   !.loudnorm = [enabled |-> enabled, i |-> i,
                                                 dual_mono |-> dual_mono]])
       \/ store = NoMapping("raises")
    /\ InitRest
    /\ last = NoOp

NextHook ==
    \/ \E is_mpv \in BOOLEAN, fail_at \in 0..3 : DidBeginPlaying(is_mpv, fail_at)
    \/ ToggleMute
    \/ VolumeDown

SpecHook == InitHook /\ [][NextHook]_vars

\* the four user actions that save, each with a write that may fail: nudges
\* of the volume and of the speed (with an mpv player running), the mute
\* toggle, and dialog sessions that commit or cancel
InitSave ==
    /\ \E v \in {0, 100}, key \in {"", "Ctrl+Alt+M"} :
           store = StoreOf([VolumeConfig EXCEPT !.volume = v, !.mute_shortcut = key])
    /\ InitRest
    /\ last = NoOp

SpeedUpPlaying ==
    /\ GetNearestSpeed(Cfg(store).playback_speed, TRUE) \in NearSpeeds
    /\ AdjustSpeed(10, TRUE)

NextSave ==
    \/ \E delta \in {-MaxDelta, MaxDelta} : AdjustVolume(delta)
    \/ ToggleMute
    \/ SpeedUpPlaying
    \/ Show
    \/ \E value \in {0, 50} : SetVolume(value)
    \/ Accept
    \/ Reject

SpecSave == InitSave /\ [][NextSave]_vars

\* adjust_speed as a function of the stored speed: every speed from 0 to
\* MaxSpeed hundredths, on and off the step table, nudged up and down with an
\* mpv player running
InitSpeed ==
    /\ \E h \in 0..MaxSpeed :
           store = StoreOf([VolumeConfig EXCEPT !.playback_speed = h])
    /\ InitRest
    /\ last = NoOp

NextSpeed ==
    \/ AdjustSpeed(10, TRUE)
    \/ AdjustSpeed(-10, TRUE)

SpecSpeed == InitSpeed /\ [][NextSpeed]_vars

\* the longest run of nudges that persist
MaxRun == 16

\* a nudge up that follows nothing but nudges up
SpeedUpAgain ==
    /\ last.op = "adjust_speed" => last.arg > 0
    /\ last.res.value < MaxRun
    /\ AdjustSpeedRun(10, FALSE, last.res.value)

\* a nudge down that follows nothing but nudges down
SpeedDownAgain ==
    /\ last.op = "adjust_speed" => last.arg < 0
    /\ last.res.value < MaxRun
    /\ AdjustSpeedRun(-10, FALSE, last.res.value)

\* adjust_speed repeated in one direction, from every stored speed from 0 to
\* MaxSpeed hundredths
NextRepeat ==
    \/ SpeedUpAgain
    \/ SpeedDownAgain

SpecRepeat == InitSpeed /\ [][NextRepeat]_vars

\* _round_to_nearest_step as a function of its value: every decimal from 0 to
\* MaxSnap thousandths, and every float a call returned
InitSnap ==
    /\ store = StoreOf(VolumeConfig)
    /\ InitRest
    /\ last = NoOp

NextSnap ==
    \/ \E t \in 0..MaxSnap : Snap(t)
    \/ SnapAgain

SpecSnap == InitSnap /\ [][NextSnap]_vars

\* the combinations the user enters: two with modifiers, one without
Combinations == {"Ctrl+Alt+M", "Shift+M", "M"}

\* edit sessions on the shortcut editors, over stores that hold no shortcut,
\* one, or the same one under two keys
InitShortcuts ==
    /\ \E mute \in {"", "Ctrl+Alt+M"}, settings \in {"", "Ctrl+Alt+M", "Shift+M"} :
           store = StoreOf([VolumeConfig EXCEPT !.mute_shortcut = mute,
                                                !.settings_shortcut = settings])
    /\ InitRest
    /\ last = NoOp

NextShortcuts ==
    \/ Show
    \/ \E k \in 1..Len(EditorNames), text \in Combinations :
           EditShortcut(EditorNames[k], text)
    \/ Accept
    \/ Reject

SpecShortcuts == InitShortcuts /\ [][NextShortcuts]_vars

\* config.load_config() called on its own
Load ==
    /\ last' = NoteOp("load_config", 0, Cfg(store), "none")
    /\ UNCHANGED <<store, live, hooks, dlg, player>>

\* the raw values the loads are tried on: absent, well typed, convertible
\* and not convertible
RawVolumes == {Absent, RInt(50), RStr("150"), RStr("a"), RNone}

RawSpeeds == {Absent, RFloat(150), RInt(2), RStr("fast")}

RawLoudnorms ==
    {Absent, RStr("not a dict")}
        \cup {[t |-> "dict", enabled |-> e, i |-> i, dual_mono |-> dm] :
                  e \in {Absent, RBool(TRUE)},
                  i \in {Absent, RInt(-14), RStr("loud")},
                  dm \in {Absent, RBool(TRUE)}}

\* load_config as a function of what the read yields: a mapping with any of
\* these values under its keys (the empty mapping among them), None, a
\* string, or a read that raises
InitLoad ==
    /\ \/ \E v \in RawVolumes, muted \in {Absent, RBool(TRUE)}, speed \in RawSpeeds,
             key \in {Absent, RStr(""), RStr("Ctrl+Alt+M")}, ln \in RawLoudnorms :
              store = [t |-> "dict",
                       m |-> [volume |-> v, is_muted |-> muted,
                              allow_volume_boost |-> Absent,
                              mute_shortcut |-> key, settings_shortcut |-> Absent,
                              volume_up_shortcut |-> Absent,
                              volume_down_shortcut |-> Absent,
                              speed_up_shortcut |-> Absent,
                              speed_down_shortcut |-> Absent,
                              playback_speed |-> speed, loudnorm |-> ln]]
       \/ \E t \in {"none", "str", "raises"} : store = NoMapping(t)
    /\ InitRest
    /\ last = NoOp

NextLoad == Load

SpecLoad == InitLoad /\ [][NextLoad]_vars

\* edit sessions over stored configurations in and out of range: the dialog
\* opens, the user moves the volume slider and clicks the boost and mute
\* check boxes, then commits or cancels
InitDialog ==
    /\ \E v \in {0, 80, 150}, muted \in BOOLEAN, boost \in BOOLEAN :
           store = StoreOf([VolumeConfig EXCEPT !.volume = v,
                                                !.is_muted = muted,
                                                !.allow_volume_boost = boost])
    /\ InitRest
    /\ last = NoOp

NextDialog ==
    \/ Show
    \/ \E value \in SliderValues : SetVolume(value)
    \/ ClickBoost
    \/ ClickMute
    \/ Accept
    \/ Reject

SpecDialog == InitDialog /\ [][NextDialog]_vars

\* every operation that saves, over stores whose shortcut entries are empty,
\* blank, spelled in lower case, distinct, or the same under two keys; the
\* volume nudges stay within 20 of the stored 100
InitBindings ==
    /\ \E mute \in {"", " ", "Ctrl+Alt+M", "ctrl+alt+m"},
          settings \in {"", "Ctrl+Alt+M", "Shift+M"} :
           store = StoreOf([VolumeConfig EXCEPT !.mute_shortcut = mute,
                                                !.settings_shortcut = settings])
    /\ InitRest
    /\ last = NoOp

NextBindings ==
    \/ Cfg(store).volume < 100 /\ VolumeUp
    \/ Cfg(store).volume > 80 /\ VolumeDown
    \/ ToggleMute
    \/ SpeedUp
    \/ Show
    \/ ClickMute
    \/ \E text \in {"", "Shift+M"} : EditShortcut("mute_shortcut_edit", text)
    \/ Accept
    \/ Reject

SpecBindings == InitBindings /\ [][NextBindings]_vars

\* commits while an editor is still recording: the combination it holds has
\* not been through validate_shortcut when accept reads it
InitCommit ==
    /\ \E mute \in {"", "Ctrl+Alt+M"}, settings \in {"", "Shift+M"} :
           store = StoreOf([VolumeConfig EXCEPT !.mute_shortcut = mute,
                                                !.settings_shortcut = settings])
    /\ InitRest
    /\ last = NoOp

NextCommit ==
    \/ Show
    \/ \E name \in {"mute_shortcut_edit", "settings_shortcut_edit"},
          text \in Combinations : PressKeys(name, text)
    \/ FinishEditing
    \/ Accept
    \/ Reject

SpecCommit == InitCommit /\ [][NextCommit]_vars

\* shortcuts used while the dialog is open: the dialog is not modal, so the
\* volume and the speed are nudged between show and accept; in the dialog the
\* user touches the boost check box only
InitStale ==
    /\ store = StoreOf(VolumeConfig)
    /\ InitRest
    /\ last = NoOp

NextStale ==
    \/ Cfg(store).volume > 80 /\ VolumeDown
    \/ SpeedUp
    \/ Show
    \/ ClickBoost
    \/ Accept
    \/ Reject

SpecStale == InitStale /\ [][NextStale]_vars

\* edit sessions in which the shortcuts are reset: the editors hold what the
\* store held and what the user entered, defaults of other editors included
NextReset ==
    \/ Show
    \/ \E name \in {"mute_shortcut_edit", "settings_shortcut_edit"},
          text \in {"", "Ctrl+Alt+M", "Ctrl+Alt+Up", "Shift+M"} :
           EditShortcut(name, text)
    \/ ResetShortcuts
    \/ Reject

SpecReset == InitShortcuts /\ [][NextReset]_vars

\* the speeds the user sets the speed slider and the speed spin box to, in
\* hundredths: the ends of the range, multiples of 0.05 and values between
SpeedInputs == {25, 27, 100, 101, 113, 115, 198, 200}

\* edit sessions on the speed controls, over stored speeds on and off the
\* multiples of 0.05
InitWidgets ==
    /\ \E h \in {100, 101, 113} :
           store = StoreOf([VolumeConfig EXCEPT !.playback_speed = h])
    /\ InitRest
    /\ last = NoOp

NextWidgets ==
    \/ Show
    \/ \E value \in SpeedInputs : MoveSpeedSlider(value)
    \/ \E value \in SpeedInputs : EditSpeedSpin(value)
    \/ Accept
    \/ Reject

SpecWidgets == InitWidgets /\ [][NextWidgets]_vars

-----------------------------------------------------------------------------
(* Properties                                                              *)

\* the configuration a load of the store returns now
Persisted == Cfg(store)

\* adjust_volume ran last and its write reached the store
Adjusted == last.op = "adjust_volume" /\ last.wrote = "ok"

\* C1: the volume persisted by adjust_volume(delta) lies in [0, maxVolume],
\* where maxVolume is 200 when allow_volume_boost is true and 100 otherwise,
\* for every stored configuration and every delta.
AdjustVolumeInRange ==
    Adjusted =>
        /\ Persisted.allow_volume_boost = last.pre.allow_volume_boost
        /\ Persisted.volume >= 0
        /\ Persisted.volume <= (IF last.pre.allow_volume_boost THEN 200 ELSE 100)

\* C1 witness: a stored volume above the range, lowered by a nudge that still
\* leaves it above, is persisted as the ceiling of a configuration without boost
AdjustVolumeInRangeWitness ==
    /\ Adjusted
    /\ ~last.pre.allow_volume_boost
    /\ last.pre.volume + last.arg > 100
    /\ last.arg < 0
    /\ Persisted.volume = 100

\* C2: whenever adjust_volume produces a volume of 0, the persisted is_muted
\* is true, whatever it was before.
AdjustToZeroMutes ==
    (Adjusted /\ Persisted.volume = 0) => Persisted.is_muted

\* C2 witness: an unmuted configuration with a positive volume is nudged to 0
AdjustToZeroMutesWitness ==
    /\ Adjusted
    /\ ~last.pre.is_muted
    /\ last.pre.volume > 0
    /\ Persisted.volume = 0
    /\ Persisted.is_muted

\* C3: from a stored volume of 0, an adjust_volume that produces a volume above
\* 0 persists is_muted = false whatever it was; volume 0 with delta 10 gives
\* volume 10, unmuted.
AdjustOffFloorUnmutes ==
    /\ (Adjusted /\ last.pre.volume = 0 /\ Persisted.volume > 0) => ~Persisted.is_muted
    /\ (Adjusted /\ last.pre.volume = 0 /\ last.arg = 10) =>
           (Persisted.volume = 10 /\ ~Persisted.is_muted)

\* C3 witness: a muted configuration at volume 0 is nudged by 10
AdjustOffFloorUnmutesWitness ==
    /\ Adjusted
    /\ last.pre.volume = 0
    /\ last.pre.is_muted
    /\ last.arg = 10
    /\ Persisted.volume = 10
    /\ ~Persisted.is_muted

\* C4: from a nonzero stored volume to a nonzero volume, a positive delta on a
\* muted configuration persists is_muted = false (also when the volume stays at
\* the ceiling); in every other such case is_muted is persisted unchanged.
AdjustNonzeroMuteRule ==
    (Adjusted /\ last.pre.volume # 0 /\ Persisted.volume # 0) =>
        Persisted.is_muted =
            (IF last.arg > 0 /\ last.pre.is_muted THEN FALSE ELSE last.pre.is_muted)

\* C4 witness: a muted configuration at the ceiling 100 is nudged up: the
\* volume stays 100 and the mute is lifted
AdjustNonzeroMuteRuleWitness ==
    /\ Adjusted
    /\ last.pre.volume = 100
    /\ ~last.pre.allow_volume_boost
    /\ last.pre.is_muted
    /\ last.arg = 10
    /\ Persisted.volume = 100
    /\ ~Persisted.is_muted

\* C5: adjust_volume applies delta limited to [-maxVolume, maxVolume]: for
\* every stored volume, also one outside [0, maxVolume], the persisted volume
\* is clamp(volume + clamp(delta, -maxVolume, maxVolume), 0, maxVolume).
AdjustAppliesLimitedDelta ==
    Adjusted =>
        LET max_volume == IF last.pre.allow_volume_boost THEN 200 ELSE 100
        IN  Persisted.volume =
                Clamp(last.pre.volume + Clamp(last.arg, -max_volume, max_volume),
                      0, max_volume)

\* toggle_mute ran last
Toggled == last.op = "toggle_mute"

\* C6 (state part): with a stored volume above 0, toggle_mute persists the
\* configuration it loaded with is_muted flipped and nothing else changed.
ToggleFlipsOnly ==
    (Toggled /\ last.pre.volume > 0 /\ last.wrote = "ok") =>
        Persisted = [last.pre EXCEPT !.is_muted = ~last.pre.is_muted]

\* C6 (step part): a toggle_mute at stored volume 0 writes nothing to the
\* store and leaves the live shortcut bindings as they are.
ToggleAtZeroStep ==
    (last'.op = "toggle_mute" /\ Cfg(store).volume = 0) =>
        (store' = store /\ live' = live /\ hooks' = hooks /\ last'.wrote = "none")

\* C6: toggle_mute flips the persisted is_muted and changes no other field
\* when the stored volume is above 0; at stored volume 0 it is a no-op that
\* writes nothing and leaves the live shortcut bindings untouched.
ToggleMuteContract == [](ToggleFlipsOnly) /\ [][ToggleAtZeroStep]_vars

\* C6 witness: a toggle_mute at volume 0 ran while the store names a mute
\* shortcut that is not bound: the store keeps its raw volume and live stays
\* empty
ToggleMuteContractWitness ==
    /\ Toggled
    /\ last.pre.volume = 0
    /\ last.wrote = "none"
    /\ Persisted.mute_shortcut = "Ctrl+Alt+M"
    /\ live = <<>>

\* C7: in an edit session, disabling boost with the edited volume above 100
\* sets the edited volume to 100 in the same step and lowers the ceiling to
\* 100; enabling boost, or disabling it at a volume of at most 100, leaves the
\* edited volume as it was (last.arg is the slider's value before the click).
BoostChangeLimitsVolume ==
    last.op = "on_volume_boost_changed" =>
        /\ dlg.volume_max = (IF dlg.volume_boost_check_box THEN 200 ELSE 100)
        /\ dlg.volume_slider =
               (IF ~dlg.volume_boost_check_box /\ last.arg > 100 THEN 100 ELSE last.arg)

\* C7 witness: boost is disabled at an edited volume of 150, which becomes 100
BoostChangeLimitsVolumeWitness ==
    /\ last.op = "on_volume_boost_changed"
    /\ last.arg = 150
    /\ ~dlg.volume_boost_check_box
    /\ dlg.volume_slider = 100
    /\ dlg.volume_max = 100

\* C8: from the default configuration, after any sequence of volume and speed
\* nudges, mute toggles and dialog sessions, the persisted configuration has
\* 0 <= volume <= 200, and volume <= 100 when allow_volume_boost is false.
PersistedVolumeInvariant ==
    /\ Persisted.volume >= 0
    /\ Persisted.volume <= 200
    /\ ~Persisted.allow_volume_boost => Persisted.volume <= 100

\* C8 witness: a session that enabled boost has committed a volume of 150, and
\* a later session has the boost check box cleared again with the slider at 100
PersistedVolumeInvariantWitness ==
    /\ Persisted.allow_volume_boost
    /\ Persisted.volume = 150
    /\ dlg.open
    /\ ~dlg.volume_boost_check_box
    /\ dlg.volume_slider = 100

\* did_begin_playing ran last and its first n set_property calls returned
Played(n) == last.op = "did_begin_playing" /\ Len(last.sets) >= n

\* C9 (state part): the volume did_begin_playing sets is 0 when the stored
\* is_muted is true and the stored volume otherwise, read from the store as
\* it is at the call.
PlayVolumeIsEffective ==
    Played(1) =>
        /\ last.sets[1] = "volume"
        /\ player.volume = (IF Persisted.is_muted THEN 0 ELSE Persisted.volume)

\* C9 (step part): did_begin_playing leaves the store as it is.
PlayStep ==
    last'.op = "did_begin_playing" => (store' = store /\ last'.wrote = "none")

\* C9: did_begin_playing sets the player's volume to 0 when is_muted is true
\* and to the stored volume otherwise, from the configuration loaded at the
\* call, and never writes the persisted configuration.
PlaySetsEffectiveVolume == [](PlayVolumeIsEffective) /\ [][PlayStep]_vars

\* C9 witness: a muted configuration with volume 20 is played: the player's
\* volume is 0 and the store still holds 20
PlaySetsEffectiveVolumeWitness ==
    /\ Played(1)
    /\ Persisted.is_muted
    /\ Persisted.volume = 20
    /\ player.volume = 0

\* C10: the 'af' property did_begin_playing sets is the empty string when
\* is_muted is true, the effective volume is 0 or loudnorm.enabled is false,
\* and otherwise exactly loudnorm=I=<i>:dual_mono=<true|false>.
PlayAudioFilter ==
    Played(2) =>
        /\ last.sets[2] = "af"
        /\ player.af =
               (IF \/ Persisted.is_muted
                   \/ (IF Persisted.is_muted THEN 0 ELSE Persisted.volume) = 0
                   \/ ~Persisted.loudnorm.enabled
                THEN ""
                ELSE "loudnorm=I=" \o ToString(Persisted.loudnorm.i) \o ":dual_mono="
                         \o (IF Persisted.loudnorm.dual_mono THEN "true" ELSE "false"))

\* C10 witness: an audible configuration with loudnorm enabled, i = -24 and
\* dual_mono set is played
PlayAudioFilterWitness ==
    /\ Played(2)
    /\ player.af = "loudnorm=I=-24:dual_mono=true"

\* did_begin_playing ran on an mpv player and none of its set_property calls
\* raised
PlayedThrough == Played(1) /\ last.arg = 0

\* C11: every call of did_begin_playing on an mpv player sets the player's
\* speed to the stored playback_speed, whatever the mute state, the effective
\* volume and the loudnorm branch.
PlaySetsSpeed ==
    PlayedThrough =>
        /\ \E k \in 1..Len(last.sets) : last.sets[k] = "speed"
        /\ player.speed = Persisted.playback_speed

Loaded == last.op = "load_config"

\* a string that is no number
NonNumeric(raw) == raw.t = "str" /\ raw.s \in {"a", "fast", "loud"}

\* the mapping m holds a non-numeric value under volume, playback_speed or
\* loudnorm.i
HasNonNumeric(m) ==
    \/ NonNumeric(m.volume)
    \/ NonNumeric(m.playback_speed)
    \/ (m.loudnorm.t = "dict" /\ NonNumeric(m.loudnorm.i))

\* the documented defaults
Documented ==
    [volume |-> 100, is_muted |-> FALSE, allow_volume_boost |-> FALSE,
     mute_shortcut |-> "", settings_shortcut |-> "",
     volume_up_shortcut |-> "", volume_down_shortcut |-> "",
     loudnorm |-> [enabled |-> FALSE, i |-> -24, dual_mono |-> FALSE],
     playback_speed |-> 100,
     speed_up_shortcut |-> "", speed_down_shortcut |-> ""]

\* C13: for every raw mapping in which volume, playback_speed or loudnorm.i
\* holds a non-numeric value, load_config returns the all-defaults
\* configuration, whatever valid values the other keys hold.
LoadAllOrNothing ==
    (Loaded /\ store.t = "dict" /\ HasNonNumeric(store.m)) => last.pre = Documented

\* C14: when the mapping's 'loudnorm' value is not a mapping, load_config
\* returns the defaults for the whole loudnorm section, and every other field
\* as it loads it from the same mapping without the 'loudnorm' key.
LoadLoudnormNotMapping ==
    (Loaded /\ store.t = "dict" /\ store.m.loudnorm.t \notin {"dict", "absent"}) =>
        /\ last.pre.loudnorm = Documented.loudnorm
        /\ last.pre = Cfg([store EXCEPT !.m.loudnorm = Absent])
        /\ (store.m.volume.t \in {"absent", "int"} => last.pre.volume =
                (IF store.m.volume.t = "absent" THEN 100 ELSE store.m.volume.n))

\* C14 witness: a mapping with volume 50, a mute shortcut, speed 1.5 and
\* loudnorm "not a dict" is loaded
LoadLoudnormNotMappingWitness ==
    /\ Loaded
    /\ store.t = "dict"
    /\ store.m.loudnorm.t = "str"
    /\ last.pre = [Documented EXCEPT !.volume = 50, !.mute_shortcut = "Ctrl+Alt+M",
                                     !.playback_speed = 150]

\* every field of the configuration vc holds a value of its type
Complete(vc) ==
    /\ DOMAIN vc = DOMAIN Documented
    /\ vc.volume \in Int /\ vc.playback_speed \in Int
    /\ vc.is_muted \in BOOLEAN /\ vc.allow_volume_boost \in BOOLEAN
    /\ \A k \in 1..Len(ShortcutNames) : vc[ShortcutNames[k]] \in STRING
    /\ vc.loudnorm.enabled \in BOOLEAN /\ vc.loudnorm.dual_mono \in BOOLEAN
    /\ vc.loudnorm.i \in Int

\* C15: load_config returns a complete configuration whatever the read
\* yields (a mapping, a value that is no mapping, None, or a read that
\* raises); when the read yields no mapping or raises, it returns the
\* all-defaults configuration and a warning is shown.
LoadNeverFails ==
    Loaded =>
        /\ Complete(last.pre)
        /\ store.t # "dict" => (last.pre = Documented /\ last.res.warned)

\* C15 witness: the read raised, and the load returned the defaults with a
\* warning
LoadNeverFailsWitness ==
    /\ Loaded
    /\ store.t = "raises"
    /\ last.pre = Documented
    /\ last.res.warned

\* every value present in the mapping m has the type of its key
WellTyped(m) ==
    /\ m.volume.t \in {"absent", "int"}
    /\ m.is_muted.t \in {"absent", "bool"}
    /\ m.allow_volume_boost.t \in {"absent", "bool"}
    /\ m.playback_speed.t \in {"absent", "float"}
    /\ \A k \in 1..Len(ShortcutNames) : m[ShortcutNames[k]].t \in {"absent", "str"}
    /\ \/ m.loudnorm.t = "absent"
       \/ /\ m.loudnorm.t = "dict"
          /\ m.loudnorm.enabled.t \in {"absent", "bool"}
          /\ m.loudnorm.i.t \in {"absent", "int"}
          /\ m.loudnorm.dual_mono.t \in {"absent", "bool"}

\* the loudnorm section expected from a well-typed mapping
ExpectedLoudnorm(ln) ==
    IF ln.t = "absent" THEN Documented.loudnorm
    ELSE [enabled |-> IF ln.enabled.t = "absent" THEN FALSE ELSE ln.enabled.n = 1,
          i |-> IF ln.i.t = "absent" THEN -24 ELSE ln.i.n,
          dual_mono |-> IF ln.dual_mono.t = "absent" THEN FALSE ELSE ln.dual_mono.n = 1]

\* the configuration expected from a well-typed mapping: the value of each
\* key present, the documented default of each key absent
Expected(m) ==
    [k \in DOMAIN Documented |->
        IF k = "loudnorm" THEN ExpectedLoudnorm(m.loudnorm)
        ELSE IF m[k].t = "absent" THEN Documented[k]
        ELSE IF m[k].t = "str" THEN m[k].s
        ELSE IF m[k].t = "bool" THEN m[k].n = 1
        ELSE m[k].n]

\* C16: for every raw mapping whose present values are well typed,
\* load_config takes the value of each key present and gives each key absent,
\* at the top level or inside loudnorm, its documented default; the empty
\* mapping yields the all-defaults configuration; no warning is shown.
LoadTakesPresentValues ==
    (Loaded /\ store.t = "dict" /\ WellTyped(store.m)) =>
        /\ last.pre = Expected(store.m)
        /\ ~last.res.warned
        /\ (\A k \in DOMAIN store.m : store.m[k].t = "absent") => last.pre = Documented

\* C16 witness: a mapping that holds only a volume, a mute shortcut and a
\* loudnorm section with only 'enabled' is loaded
LoadTakesPresentValuesWitness ==
    /\ Loaded
    /\ store.t = "dict"
    /\ WellTyped(store.m)
    /\ store.m.playback_speed = Absent
    /\ last.pre = [Documented EXCEPT !.volume = 50, !.mute_shortcut = "Ctrl+Alt+M",
                                     !.loudnorm.enabled = TRUE]

\* the user actions that save: volume nudge, speed nudge, mute toggle, commit
SavingOps == {"adjust_volume", "adjust_speed", "toggle_mute", "accept"}

\* C17 (step): a user action whose write to the store failed showed a
\* warning, raised nothing and ran on to its end (hook registered again,
\* shortcuts set up from the store, dialog closed by a commit), and the store
\* holds what it held before.
SaveFailureStep ==
    (last'.op \in SavingOps /\ last'.wrote = "failed") =>
        /\ store' = store
        /\ Cfg(store') = last'.pre
        /\ last'.res.warned /\ ~last'.res.raised
        /\ hooks' = 1
        /\ live' = SetupShortcuts(store)
        /\ (last'.op = "accept" => ~dlg'.open)

StepTable == {25, 50, 60, 70, 80, 90, 100, 110, 120, 130, 140, 150, 175, 200}

\* adjust_speed ran last and its write reached the store; last.pre holds the
\* speed it started from
SpeedNudged == last.op = "adjust_speed" /\ last.wrote = "ok"

\* C18: a speed nudge persists the smallest entry of the step table strictly
\* greater than the current speed when increasing and the largest entry
\* strictly less when decreasing; at the end of the table it persists the
\* boundary (2.0 up gives 2.0, 0.25 down gives 0.25, 1.0 up gives 1.1); the
\* persisted speed is always an entry of the table.
SpeedNudgeFollowsTable ==
    SpeedNudged =>
        LET current == last.pre.playback_speed
            new_speed == Persisted.playback_speed
            above == {t \in StepTable : t > current}
            below == {t \in StepTable : t < current}
        IN  /\ new_speed \in StepTable
            /\ last.arg > 0 =>
                   IF above = {} THEN new_speed = 200
                   ELSE new_speed \in above /\ \A t \in above : new_speed <= t
            /\ last.arg < 0 =>
                   IF below = {} THEN new_speed = 25
                   ELSE new_speed \in below /\ \A t \in below : new_speed >= t
            /\ (last.arg > 0 /\ current = 200) => new_speed = 200
            /\ (last.arg < 0 /\ current = 25) => new_speed = 25
            /\ (last.arg > 0 /\ current = 100) => new_speed = 110

\* C18 witness: a stored speed of 2.0 was nudged up and 2.0 is persisted
SpeedNudgeFollowsTableWitness ==
    /\ SpeedNudged
    /\ last.arg > 0
    /\ last.pre.playback_speed = 200
    /\ Persisted.playback_speed = 200

\* C19: _round_to_nearest_step(value, 0.05) returns the multiple of 0.05
\* nearest to value (0.37 gives 0.35), a value half-way between two multiples
\* goes to the one with the even quotient, and a value already snapped is
\* returned unchanged.
SnapToGrid ==
    /\ last.op = "_round_to_nearest_step" =>
           LET t == last.arg \div 10
               k == t \div 50
               r == t % 50
               nearest == IF r < 25 THEN k
                          ELSE IF r > 25 THEN k + 1
                          ELSE IF k % 2 = 0 THEN k ELSE k + 1
           IN  /\ last.res.value = 10 * (50 * nearest)
               /\ t = 370 => last.res.value = 10 * 350
    /\ last.op = "_round_to_nearest_step again" => last.res.value = last.arg

\* C20 (step): last'.sets names the editor that changed and the canonical
\* string of the combination entered.  The combination is rejected when it
\* has no modifier or when another editor holds it; then the editor that
\* changed is cleared, otherwise it holds the combination; every other editor
\* holds what it held.
ValidateStep ==
    last'.op = "validate_shortcut" =>
        LET name == last'.sets[1]
            key == last'.sets[2]
            eds == dlg.shortcut_editors
            rejected == \/ ~HasModifier(key)
                        \/ \E o \in (DOMAIN eds) \ {name} : eds[o] = key
        IN  /\ \A o \in (DOMAIN eds) \ {name} :
                   dlg'.shortcut_editors[o] = eds[o]
            /\ dlg'.shortcut_editors[name] = (IF rejected THEN "" ELSE key)

\* C20: when an editor's combination changes to a non-empty value, validation
\* rejects it if it holds none of Control, Alt, Shift, Meta or if its
\* canonical string is the combination of another editor; on rejection only
\* the editor just changed is cleared and every other editor keeps its
\* combination.
ShortcutValidation == [][ValidateStep]_vars

\* C20 witness: Ctrl+Alt+M, held by the volume-up editor, was entered in the
\* mute editor: the mute editor is empty and the volume-up editor holds it
ShortcutValidationWitness ==
    /\ last.op = "validate_shortcut"
    /\ last.sets = <<"mute_shortcut_edit", "Ctrl+Alt+M">>
    /\ dlg.shortcut_editors["mute_shortcut_edit"] = ""
    /\ dlg.shortcut_editors["volume_up_shortcut_edit"] = "Ctrl+Alt+M"

\* C21: at any time, whatever shortcut set is persisted and activated, no two
\* live bindings carry the same non-empty key combination.
LiveKeysDistinct ==
    \A i \in 1..Len(live), j \in 1..Len(live) :
        (i # j /\ live[i].key # "") => live[i].key # live[j].key

\* the shortcut entries of the configuration vc that are neither empty nor blank
BoundEntries(vc) ==
    {k \in 1..Len(ShortcutNames) :
         vc[ShortcutNames[k]] # "" /\ ~IsSpace(vc[ShortcutNames[k]])}

\* the operation that ran last set the shortcuts up
Activated == last.wrote # "none"

\* C25 (step): a step that sets the shortcuts up leaves one live binding for
\* each shortcut entry that is neither empty nor blank, none with an empty or
\* blank key, and the same live bindings whatever was live before.
ActivationStep ==
    last'.wrote # "none" =>
        /\ Len(live') = Cardinality(BoundEntries(Cfg(store')))
        /\ \A i \in 1..Len(live') : live'[i].key # "" /\ ~IsSpace(live'[i].key)
        /\ live' = Activate(<<>>, store')

\* C25: setup_shortcuts revokes every binding registered before, then
\* installs the new ones in one step, and installs none for an empty or blank
\* combination: two activations in succession leave exactly the bindings of
\* the second, with nothing left over from the first.
ActivationReplaces == [][ActivationStep]_vars

\* C25 witness: a commit, which sets the shortcuts up twice in succession,
\* ran while a binding was live and has left a single live binding, that of
\* the one shortcut entry that is not empty
ActivationReplacesWitness ==
    /\ last.op = "accept"
    /\ Activated
    /\ Cardinality(BoundEntries(last.pre)) = 2
    /\ Cardinality(BoundEntries(Persisted)) = 1
    /\ Len(live) = 1

\* the callback bound to each shortcut entry
CallbackOf ==
    [mute_shortcut |-> "mute", settings_shortcut |-> "settings",
     volume_up_shortcut |-> "volume_up", volume_down_shortcut |-> "volume_down",
     speed_up_shortcut |-> "speed_up", speed_down_shortcut |-> "speed_down"]

\* the bindings the configuration vc asks for: the combination of every
\* shortcut entry that is neither empty nor blank, with its callback
Wanted(vc) ==
    {[key |-> KeyString(vc[ShortcutNames[k]]), fn |-> CallbackOf[ShortcutNames[k]]] :
         k \in BoundEntries(vc)}

\* the operations that save, the change of the mute check box among them
AllSavingOps == SavingOps \cup {"on_mute_changed_silent"}

\* C28: after every completed operation that saves (volume nudge, speed
\* nudge, mute toggle, change of the mute check box, commit) the live bindings
\* are exactly the non-empty, non-blank shortcut entries of the configuration
\* then persisted, also when the write to the store failed.
LiveMatchesPersisted ==
    (last.op \in AllSavingOps /\ last.wrote # "none") =>
        {live[i] : i \in 1..Len(live)} = Wanted(Persisted)

\* C28 witness: a change of the mute check box whose write failed has bound
\* the two shortcut entries the store holds, one of them spelled in lower case
LiveMatchesPersistedWitness ==
    /\ last.op = "on_mute_changed_silent"
    /\ last.wrote = "failed"
    /\ Persisted.mute_shortcut = "ctrl+alt+m"
    /\ Persisted.settings_shortcut = "Shift+M"
    /\ Len(live) = 2

\* the positions of the call name among the calls the last operation made
CallsOf(name) == {k \in 1..Len(last.sets) : last.sets[k] = name}

\* a commit ran last and its write reached the store
Committed == last.op = "accept" /\ last.wrote = "ok"

InvalidSet(eds) ==
    \/ \E e \in DOMAIN eds : eds[e] # "" /\ ~HasModifier(eds[e])
    \/ \E e1 \in DOMAIN eds, e2 \in DOMAIN eds :
           e1 # e2 /\ eds[e1] # "" /\ eds[e1] = eds[e2]

\* C22 (step): a commit on an invalid set changes neither the store, nor the
\* live bindings, nor the hook, nor the dialog, which stays open.
RefusalStep ==
    (last'.op = "accept" /\ InvalidSet(dlg.shortcut_editors)) =>
        /\ store' = store
        /\ live' = live
        /\ hooks' = hooks
        /\ dlg' = dlg /\ dlg'.open
        /\ last'.wrote = "none"

\* C22: a commit attempted while the edited shortcut set is invalid (a
\* combination without a modifier, or one combination under two operations)
\* is refused in full: nothing is written to the store, the live bindings are
\* not replaced, and the edit session stays open with all edits intact.
CommitRefused == [][RefusalStep]_vars

\* C22 witness: a commit was refused on a set in which the settings editor
\* holds the combination of the mute editor, both of them bound before: the
\* dialog is open with both edits, and the store and the live bindings are
\* those of before
CommitRefusedWitness ==
    /\ last.op = "accept" /\ last.wrote = "none"
    /\ dlg.open
    /\ dlg.shortcut_editors["mute_shortcut_edit"] = "Ctrl+Alt+M"
    /\ dlg.shortcut_editors["settings_shortcut_edit"] = "Ctrl+Alt+M"
    /\ Persisted.settings_shortcut = "Shift+M"
    /\ Len(live) = 2

\* C24: after open, edit, cancel the persisted configuration and the live
\* bindings are those of the moment the session was opened: no step taken in
\* the dialog between open and cancel writes the store or changes the live
\* bindings.
EditsTouchNothing ==
    [][(dlg.open /\ dlg'.open) => (store' = store /\ live' = live)]_vars

\* C26: the speed slider and the speed spin box stay synchronized: after any
\* sequence of slider moves and spin box edits both show the same speed, a
\* multiple of 0.05, and the playback_speed a commit persists is that speed.
SpeedWidgetsSynchronized ==
    /\ dlg.open =>
           /\ dlg.speed_slider = dlg.speed_spin_box
           /\ dlg.speed_slider % 5 = 0
    /\ Committed => Persisted.playback_speed % 5 = 0

\* C27: after a confirmed 'Reset Shortcuts to Default', whatever the editors
\* held before, every shortcut editor holds its default combination.
ResetGivesDefaults ==
    (last.op = "_reset_shortcuts" /\ last.arg = 1) =>
        \A k \in 1..Len(DefaultShortcuts) :
            dlg.shortcut_editors[DefaultShortcuts[k][1]] = DefaultShortcuts[k][2]

\* C29: from the default configuration, through volume nudges, mute toggles
\* and dialog sessions (a commit with the slider at 0 among them), a persisted
\* volume of 0 always comes with a persisted is_muted of true.
ZeroVolumeIsMuted == Persisted.volume = 0 => Persisted.is_muted

\* C30: a parameter changed by a shortcut operation while an edit session is
\* open, in a field the user did not edit in the dialog, is still there after
\* the commit: where the user edits neither the volume nor the speed, a commit
\* persists the volume and the speed that were persisted just before it.
CommitKeepsUnedited ==
    Committed =>
        /\ Persisted.volume = last.pre.volume
        /\ Persisted.playback_speed = last.pre.playback_speed

\* C31: for every stored playback speed, on or off the step table, inside or
\* outside [0.25, 2.0], a speed nudge up never persists a speed lower than the
\* stored one and a speed nudge down never persists a higher one.
SpeedNudgeKeepsDirection ==
    SpeedNudged =>
        /\ last.arg > 0 => Persisted.playback_speed >= last.pre.playback_speed
        /\ last.arg < 0 => Persisted.playback_speed <= last.pre.playback_speed

\* the nudges of the present run that persisted, the last one among them
RunLength == last.res.value

\* a run of nudges up, or of nudges down, is under way
RunsUp == last.op = "adjust_speed" /\ last.arg > 0

RunsDown == last.op = "adjust_speed" /\ last.arg < 0

\* C32 (state): once 14 nudges of a run have persisted, the persisted speed is
\* 2.0 in a run of nudges up and 0.25 in a run of nudges down.
RepeatReachesEnd ==
    /\ (RunsUp /\ RunLength >= 14) => Persisted.playback_speed = 200
    /\ (RunsDown /\ RunLength >= 14) => Persisted.playback_speed = 25

\* C32 (step): a nudge up at 2.0 leaves 2.0, a nudge down at 0.25 leaves 0.25.
RepeatStaysStep ==
    /\ (last'.op = "adjust_speed" /\ last'.arg > 0 /\ Cfg(store).playback_speed = 200)
           => Cfg(store').playback_speed = 200
    /\ (last'.op = "adjust_speed" /\ last'.arg < 0 /\ Cfg(store).playback_speed = 25)
           => Cfg(store').playback_speed = 25

\* C32: from any stored playback speed, speed nudges up repeated with no other
\* operation in between reach the persisted speed 2.0 within at most 14
\* nudges, and every further nudge up leaves it at 2.0; nudges down reach
\* 0.25 within at most 14 and stay there.
RepeatedNudgeConverges == []RepeatReachesEnd /\ [][RepeatStaysStep]_vars

\* C32 witness: the fourteenth nudge up of a run that started below 0.25 has
\* taken the persisted speed from 1.75 to 2.0
RepeatedNudgeConvergesWitness ==
    /\ RunsUp /\ last.wrote = "ok"
    /\ RunLength = 14
    /\ last.pre.playback_speed = 175
    /\ Persisted.playback_speed = 200

=============================================================================
